---- MODULE Spec2Model ----
(***************************************************************************)
(* Verification model of three independent fragments of Kibana:            *)
(*   - the OnPreRouting -> Hapi onRequest adapter (adoptToHapiOnRequest),   *)
(*   - the alerting TaskRunnerFactory,                                      *)
(*   - the browser helper fetchFields.                                      *)
(* Each fragment has its own specification (SpecAdapter, SpecFactory,       *)
(* SpecFetch); the variables of the other fragments stay at their initial   *)
(* values.                                                                  *)
(***************************************************************************)
EXTENDS Integers, Sequences, FiniteSets, TLC

VARIABLES
    \* ---- adapter: one entry per in-flight Hapi request ----
    url,           \* request.url, as last set through request.setUrl
    rawUrl,        \* request.raw.req.url
    rewrittenUrl,  \* (request.app as KibanaRequestState).rewrittenUrl
    pc,            \* position of interceptPreRoutingRequest on the request
    out,           \* value the last finished invocation resolved / rejected with
    logged,        \* number of log.error calls of the current invocation
    result,        \* what the handler of the current invocation did
    pre,           \* the request's three URL fields when the invocation started
    ran,           \* number of interceptors started on the request
    \* ---- TaskRunnerFactory ----
    isInitialized,
    taskRunnerContext,
    calls,         \* history of the calls made on the factory
    runners,       \* TaskRunner objects built by create
    \* ---- fetchFields ----
    fpc,           \* position of fetchFields
    patterns,      \* const patterns
    reqs,          \* state of each http.get promise
    allSettled,    \* state of the Promise.all promise
    toasts,        \* number of toasts.addDanger calls
    ret            \* what the promise returned by fetchFields settled with

adapterVars == <<url, rawUrl, rewrittenUrl, pc, out, logged, result, pre, ran>>
factoryVars == <<isInitialized, taskRunnerContext, calls, runners>>
fetchVars   == <<fpc, patterns, reqs, allSettled, toasts, ret>>
vars == <<adapterVars, factoryVars, fetchVars>>

(***************************************************************************)
(* Bounds                                                                  *)
(***************************************************************************)
MaxInterceptors == 2      \* interceptors registered on the onRequest extension point
MaxCalls == 4             \* calls made on one TaskRunnerFactory
MaxPatterns == 2          \* length of the indexPatterns array

Requests == {"r1", "r2"}  \* requests in flight at once

(***************************************************************************)
(* JavaScript values that can appear as a URL                              *)
(***************************************************************************)
Undefined == [t |-> "undefined", v |-> <<>>]
Str(s)    == [t |-> "string", v |-> s]
Num       == [t |-> "number", v |-> <<>>]
Arr(s)    == [t |-> "array", v |-> s]

OldPath   == <<"/", "o">>
NewPath   == <<"/", "n">>
FinalPath == <<"/", "f">>
Empty     == <<>>

\* url arguments a handler may pass to toolkit.rewriteUrl(url: string)
UrlStrings == {NewPath, FinalPath, Empty}

(***************************************************************************)
(* Values a handler can hand back (OnPreRoutingResult | KibanaResponse, or *)
(* anything else an untyped handler returns)                               *)
(***************************************************************************)
Value(js, isResp, type, u, status, payload) ==
    [js |-> js, isKibanaResponse |-> isResp, type |-> type, url |-> u,
     status |-> status, payload |-> payload]

NoValue == Value("undefined", FALSE, "none", Undefined, 0, "")
NullValue == Value("null", FALSE, "none", Undefined, 0, "")

\* preRoutingResult.next()
next == Value("object", FALSE, "next", Undefined, 0, "")

\* preRoutingResult.rewriteUrl(url)
rewriteUrl(u) == Value("object", FALSE, "rewriteUrl", u, 0, "")

\* new KibanaResponse(status, payload); extra is a stray `type` property
KibanaResponse(status, payload, extra) ==
    Value("object", TRUE, extra, IF extra = "rewriteUrl" THEN Str(NewPath) ELSE Undefined,
          status, payload)

ToolkitResults == {next} \cup {rewriteUrl(Str(u)) : u \in UrlStrings}

Responses ==
    {KibanaResponse(200, "ok", "none"), KibanaResponse(404, "not found", "none"),
     KibanaResponse(200, "ok", "next"), KibanaResponse(200, "ok", "rewriteUrl")}

\* what the adapter does not recognise, per its own error message
Unrecognized ==
    {NoValue, NullValue,
     Value("object", FALSE, "none", Undefined, 0, ""),
     Value("object", FALSE, "bogus", Undefined, 0, ""),
     rewriteUrl(Undefined), rewriteUrl(Num), rewriteUrl(Arr(NewPath))}

HandlerResults == ToolkitResults \cup Responses \cup Unrecognized

(***************************************************************************)
(* The type guards                                                         *)
(***************************************************************************)
\* `result && ...` : undefined and null are falsy
Truthy(res) == res.js = "object"

isNextWrongTag(res) == Truthy(res) /\ res.type = "rewriteUrl"
isNext(res) == Truthy(res) /\ res.type = "next"

isRewriteUrl(res) == Truthy(res) /\ res.type = "rewriteUrl"

\* result instanceof KibanaResponse
InstanceOfKibanaResponse(res) == res.isKibanaResponse

(***************************************************************************)
(* Lifecycle return values                                                 *)
(***************************************************************************)
\* responseToolkit.continue
Continue == [kind |-> "continue", status |-> 0, body |-> ""]

\* hapiResponseAdapter.toInternalError()
toInternalError == [kind |-> "internalError", status |-> 500, body |-> ""]

\* hapiResponseAdapter.handle(result), when it does not throw
toHapiResponse(res) == [kind |-> "response", status |-> res.status, body |-> res.payload]

\* a promise that rejects into the host server (never built by the code)
Escapes == [kind |-> "rejected", status |-> 0, body |-> ""]

\* nothing returned yet
Pending == [kind |-> "pending", status |-> 0, body |-> ""]

(***************************************************************************)
(* The body of interceptPreRoutingRequest                                  *)
(***************************************************************************)
Fields(u, raw, rewritten) == [url |-> u, rawUrl |-> raw, rewrittenUrl |-> rewritten]

\* leaving the try block with `return v`
Returned(v, req) == [out |-> v, req |-> req, logged |-> 0]

\* the exception leaves the async function
Uncaught(req) == [out |-> Escapes, req |-> req, logged |-> 0]

CatchSilent(req) == [out |-> toInternalError, req |-> req, logged |-> 0]
\* catch (error) { log.error(error); return hapiResponseAdapter.toInternalError(); }
Catch(req) == [out |-> toInternalError, req |-> req, logged |-> 1]

\* a ?? b
Coalesce(a, b) == IF a.t = "undefined" THEN b ELSE a

OverwriteOriginal(req) == [req EXCEPT !.rewrittenUrl = req.url]
\* appState.rewrittenUrl = appState.rewrittenUrl ?? request.url
RecordOriginal(req) == [req EXCEPT !.rewrittenUrl = Coalesce(req.rewrittenUrl, req.url)]

\* url.length throws a TypeError when url is undefined
LengthThrows(u) == u.t = "undefined"

\* url.length: undefined for a number, so the loop body never runs
LengthOf(u) == IF u.t \in {"string", "array"} THEN Len(u.v) ELSE 0

\* let urlCopy = ''; for (let i = 0; i < url.length; i++) urlCopy += url[i];
RECURSIVE CopyFrom(_, _, _)
CopyFrom(u, i, urlCopy) ==
    IF i < LengthOf(u) THEN CopyFrom(u, i + 1, Append(urlCopy, u.v[i + 1])) ELSE urlCopy

CopyUrl(u) == CopyFrom(u, 0, <<>>)

\* request.setUrl(urlCopy) throws when the string does not parse as a URL
SetUrlThrows(s) == s = <<>> \/ Head(s) # "/"

RewriteUncaught(res, req) ==
    LET req1 == RecordOriginal(req)
        u == res.url
    IN  IF LengthThrows(u) THEN Uncaught(req1)
        ELSE IF SetUrlThrows(CopyUrl(u)) THEN Uncaught(req1)
        ELSE Returned(Continue, [req1 EXCEPT !.url = Str(CopyUrl(u)), !.rawUrl = u])
\* the isRewriteUrl branch
Rewrite(res, req) ==
    LET req1 == RecordOriginal(req)
        u == res.url
    IN  IF LengthThrows(u) THEN Catch(req1)
        ELSE IF SetUrlThrows(CopyUrl(u)) THEN Catch(req1)
        ELSE Returned(Continue, [req1 EXCEPT !.url = Str(CopyUrl(u)), !.rawUrl = u])

DispatchNextFirst(res, req, handleThrows) ==
    IF isNext(res) THEN Returned(Continue, req)
    ELSE IF InstanceOfKibanaResponse(res)
         THEN IF handleThrows THEN Catch(req) ELSE Returned(toHapiResponse(res), req)
    ELSE IF isRewriteUrl(res) THEN Rewrite(res, req)
    ELSE Catch(req)
\* everything after `await fn(...)`
Dispatch(res, req, handleThrows) ==
    IF InstanceOfKibanaResponse(res)
    THEN IF handleThrows THEN Catch(req) ELSE Returned(toHapiResponse(res), req)
    ELSE IF isNext(res) THEN Returned(Continue, req)
    ELSE IF isRewriteUrl(res) THEN Rewrite(res, req)
    ELSE Catch(req)

SharedAppState(r) == "r1"
\* request.app: the state bag of the request itself
AppStateOf(r) == r

\* the three URL fields of request r
Req(r) == Fields(url[r], rawUrl[r], rewrittenUrl[AppStateOf(r)])

Outcome(how, value, handleThrew) == [how |-> how, value |-> value, handleThrew |-> handleThrew]

\* the invocation on r ends with `res`
Finish(r, res, outcome) ==
    /\ url' = [url EXCEPT ![r] = res.req.url]
    /\ rawUrl' = [rawUrl EXCEPT ![r] = res.req.rawUrl]
    /\ rewrittenUrl' = [rewrittenUrl EXCEPT ![AppStateOf(r)] = res.req.rewrittenUrl]
    /\ out' = [out EXCEPT ![r] = res.out]
    /\ logged' = [logged EXCEPT ![r] = res.logged]
    /\ result' = [result EXCEPT ![r] = outcome]
    /\ pc' = [pc EXCEPT ![r] = "done"]

\* Hapi calls the next onRequest extension only after the previous one continued
CanCall(r) ==
    /\ ran[r] < MaxInterceptors
    /\ \/ pc[r] = "idle"
       \/ pc[r] = "done" /\ out[r] = Continue

Enter(r) ==
    /\ CanCall(r)
    /\ ran' = [ran EXCEPT ![r] = @ + 1]
    /\ pre' = [pre EXCEPT ![r] = Req(r)]

\* KibanaRequest.from(request) throws
CallWrapFails(r) ==
    /\ Enter(r)
    /\ Finish(r, Catch(Req(r)), Outcome("wrapFailed", NoValue, FALSE))
    /\ UNCHANGED <<factoryVars, fetchVars>>

\* fn(...) throws before it returns anything
CallHandlerThrows(r) ==
    /\ Enter(r)
    /\ Finish(r, Catch(Req(r)), Outcome("threw", NoValue, FALSE))
    /\ UNCHANGED <<factoryVars, fetchVars>>

\* fn(...) returns a value or a promise: `await` suspends the invocation
CallSuspends(r) ==
    /\ Enter(r)
    /\ pc' = [pc EXCEPT ![r] = "awaiting"]
    /\ out' = [out EXCEPT ![r] = Pending]
    /\ logged' = [logged EXCEPT ![r] = 0]
    /\ result' = [result EXCEPT ![r] = Outcome("pending", NoValue, FALSE)]
    /\ UNCHANGED <<url, rawUrl, rewrittenUrl, factoryVars, fetchVars>>

\* the awaited handler result is a rejection
ResumeRejected(r) ==
    /\ pc[r] = "awaiting"
    /\ Finish(r, Catch(Req(r)), Outcome("rejected", NoValue, FALSE))
    /\ UNCHANGED <<pre, ran, factoryVars, fetchVars>>

\* the awaited handler result is `value`; handleThrows: hapiResponseAdapter.handle throws
ResumeReturned(r, value, handleThrows) ==
    /\ pc[r] = "awaiting"
    /\ handleThrows => InstanceOfKibanaResponse(value)
    /\ Finish(r, Dispatch(value, Req(r), handleThrows), Outcome("returned", value, handleThrows))
    /\ UNCHANGED <<pre, ran, factoryVars, fetchVars>>

InitAdapter ==
    /\ url = [r \in Requests |-> Str(OldPath)]
    /\ rawUrl = [r \in Requests |-> Str(OldPath)]
    /\ rewrittenUrl = [r \in Requests |-> Undefined]
    /\ pc = [r \in Requests |-> "idle"]
    /\ out = [r \in Requests |-> Pending]
    /\ logged = [r \in Requests |-> 0]
    /\ result = [r \in Requests |-> Outcome("none", NoValue, FALSE)]
    /\ pre = [r \in Requests |-> Fields(Str(OldPath), Str(OldPath), Undefined)]
    /\ ran = [r \in Requests |-> 0]

InitFactory ==
    /\ isInitialized = FALSE
    /\ taskRunnerContext = "undefined"
    /\ calls = <<>>
    /\ runners = <<>>

InitFetch ==
    /\ fpc = "idle"
    /\ patterns = <<>>
    /\ reqs = <<>>
    /\ allSettled = [state |-> "pending", reason |-> "none"]
    /\ toasts = 0
    /\ ret = [kind |-> "pending", fields |-> {}]

Init == InitAdapter /\ InitFactory /\ InitFetch

NextAdapter ==
    \E r \in Requests :
        \/ CallWrapFails(r)
        \/ CallHandlerThrows(r)
        \/ CallSuspends(r)
        \/ ResumeRejected(r)
        \/ \E value \in HandlerResults, handleThrows \in BOOLEAN :
               ResumeReturned(r, value, handleThrows)

SpecAdapter == Init /\ [][NextAdapter]_vars

(***************************************************************************)
(* Properties of the adapter                                               *)
(***************************************************************************)
Done(r) == pc[r] = "done"

\* the request's three URL fields as they are now
Now(r) == Fields(url[r], rawUrl[r], rewrittenUrl[r])

ReturnedValue(r, values) ==
    Done(r) /\ result[r].how = "returned" /\ result[r].value \in values

RewriteResults == {rewriteUrl(Str(u)) : u \in UrlStrings}

AcceptedRewriteResults == {rewriteUrl(Str(u)) : u \in {v \in UrlStrings : ~SetUrlThrows(v)}}

RewriteApplied(r) ==
    /\ url[r] = result[r].value.url
    /\ rawUrl[r] = result[r].value.url
    /\ out[r] = Continue
    /\ rewrittenUrl[r] = Str(OldPath)

HandlerFailed(r) == Done(r) /\ result[r].how \in {"threw", "rejected"}

FailedClosed(r) == out[r] = toInternalError /\ logged[r] = 1 /\ Now(r) = pre[r]

\* C2: an invocation whose handler threw or rejected ends with the internal-error
\* response, exactly one log.error call, and the URL fields and the recorded
\* original it started with.
C2_HandlerFailureIsInternalError ==
    \A r \in Requests : HandlerFailed(r) => FailedClosed(r)

\* the handler of a second interceptor rejected after a first one rewrote the URL
C2_Witness ==
    \E r \in Requests :
        /\ HandlerFailed(r)
        /\ result[r].how = "rejected"
        /\ pre[r].rewrittenUrl = Str(OldPath)
        /\ out[r] = toInternalError

\* C3: an invocation whose handler returned a value that is no continue-result, no
\* rewrite-result with a URL string and no KibanaResponse ends like a throwing
\* handler: internal-error response, one log.error call, URL fields and recorded
\* original untouched.
C3_UnrecognizedIsInternalError ==
    \A r \in Requests : ReturnedValue(r, Unrecognized) => FailedClosed(r)

\* C4: a finished invocation either changed nothing of the request, or applied a
\* whole rewrite and returned 'continue'; an invocation that returned the
\* internal-error response changed none of the three fields.
C4_NoPartialRewrite ==
    \A r \in Requests :
        Done(r) =>
            /\ out[r] = toInternalError => Now(r) = pre[r]
            /\ Now(r) # pre[r] =>
                   /\ out[r] = Continue
                   /\ url[r] = Str(CopyUrl(result[r].value.url))
                   /\ rawUrl[r] = result[r].value.url
                   /\ rewrittenUrl[r] = Coalesce(pre[r].rewrittenUrl, pre[r].url)

\* a failure inside the try block of the invocation
SomethingFailed(r) ==
    \/ result[r].how \in {"wrapFailed", "threw", "rejected"}
    \/ result[r].handleThrew
    \/ /\ result[r].how = "returned"
       /\ result[r].value \in RewriteResults
       /\ SetUrlThrows(result[r].value.url.v)

\* C5: every finished invocation fulfilled with 'continue', a native response or
\* the internal-error response, never with a rejection; when wrapping the
\* request, the handler, hapiResponseAdapter.handle or request.setUrl failed it
\* fulfilled with the internal-error response after one log.error call.
C5_NeverRejects ==
    \A r \in Requests :
        Done(r) =>
            /\ out[r].kind \in {"continue", "response", "internalError"}
            /\ SomethingFailed(r) => out[r] = toInternalError /\ logged[r] = 1

\* each of the four failure points has been hit by a finished invocation
C5_Witness ==
    /\ \E r \in Requests : Done(r) /\ result[r].handleThrew /\ out[r] = toInternalError
    /\ \E r \in Requests :
           /\ ReturnedValue(r, {rewriteUrl(Str(Empty))})
           /\ out[r] = toInternalError

\* C6: an invocation whose handler returned toolkit.next() ends with 'continue',
\* no log.error call, and the URL fields and recorded original it started with.
C6_NextContinuesUnchanged ==
    \A r \in Requests :
        ReturnedValue(r, {next}) => out[r] = Continue /\ logged[r] = 0 /\ Now(r) = pre[r]

\* a second interceptor continued after a first one rewrote the URL
C6_Witness ==
    \E r \in Requests :
        /\ ReturnedValue(r, {next})
        /\ out[r] = Continue
        /\ url[r] = Str(NewPath)
        /\ rewrittenUrl[r] = Str(OldPath)

\* C7: an invocation whose handler returned a KibanaResponse ends with the native
\* response hapiResponseAdapter.handle built from that object (its status and
\* body), even when the object also carries a `type` tag of a continue or
\* rewrite result, and with the URL fields and recorded original it started
\* with; it never ends with 'continue' (when handle throws it ends with the
\* internal-error response).
C7_ResponsePassedThrough ==
    \A r \in Requests :
        ReturnedValue(r, Responses) =>
            /\ Now(r) = pre[r]
            /\ IF result[r].handleThrew
               THEN out[r] = toInternalError
               ELSE /\ out[r].kind = "response"
                    /\ out[r].status = result[r].value.status
                    /\ out[r].body = result[r].value.payload

\* a handler returned a 404 response, and another a response tagged 'next'
C7_Witness ==
    /\ \E r \in Requests :
           /\ ReturnedValue(r, {KibanaResponse(404, "not found", "none")})
           /\ out[r].kind = "response" /\ out[r].status = 404
    /\ \E r \in Requests :
           /\ ReturnedValue(r, {KibanaResponse(200, "ok", "next")})
           /\ out[r].kind = "response"

\* the step is no step of an invocation on r
NotStepOf(r) == pc'[r] = pc[r] /\ ran'[r] = ran[r]

Untouched(r) ==
    /\ url'[r] = url[r]
    /\ rawUrl'[r] = rawUrl[r]
    /\ rewrittenUrl'[r] = rewrittenUrl[r]
    /\ out'[r] = out[r]
    /\ logged'[r] = logged[r]
    /\ result'[r] = result[r]
    /\ pre'[r] = pre[r]

\* what the handler result of the invocation on r dictates, given the fields pre[r]
OwnOutcome(r) ==
    /\ pre[r].rewrittenUrl \in {Undefined, Str(OldPath)}
    /\ result[r].how \in {"wrapFailed", "threw", "rejected"} => FailedClosed(r)
    /\ ReturnedValue(r, {next}) => out[r] = Continue /\ Now(r) = pre[r]
    /\ ReturnedValue(r, AcceptedRewriteResults) => RewriteApplied(r)
    /\ ReturnedValue(r, Responses) => out[r].kind \in {"response", "internalError"} /\ Now(r) = pre[r]

\* C8: a step of an invocation on one request changes no field, state or outcome
\* of another request, whatever the order in which the handlers complete, and
\* every finished invocation has the outcome its own handler result dictates.
C8_RequestsIsolated ==
    /\ [](\A r \in Requests : Done(r) => OwnOutcome(r))
    /\ [][\A r \in Requests : NotStepOf(r) => Untouched(r)]_vars

\* both requests are rewritten, the second one finishing first
C8_Witness ==
    /\ pc["r1"] = "awaiting" /\ ran["r1"] = 2 /\ url["r1"] = Str(NewPath)
    /\ ReturnedValue("r2", {rewriteUrl(Str(FinalPath))})
    /\ url["r2"] = Str(FinalPath)
    /\ rewrittenUrl["r2"] = Str(OldPath)

(***************************************************************************)
(* TaskRunnerFactory                                                       *)
(***************************************************************************)
Contexts == {"contextA", "contextB"}
AlertTypes == {"alertType1", "alertType2"}
TaskInstances == {"task1", "task2"}

AlreadyInitialized == "TaskRunnerFactory already initialized"
NotInitialized == "TaskRunnerFactory not initialized"

Call(op, arg, threw, ctxAfter) == [op |-> op, arg |-> arg, threw |-> threw, ctxAfter |-> ctxAfter]

initializeUnguarded(initialized) == FALSE
\* if (this.isInitialized) throw ...
initializeThrows(initialized) == initialized

\* if (!this.isInitialized) throw ...
createThrows(initialized) == ~initialized

\* new TaskRunner(alertType, taskInstance, this.taskRunnerContext!)
TaskRunner(alertType, taskInstance, context) ==
    [alertType |-> alertType, taskInstance |-> taskInstance, context |-> context]

\* factory.initialize(taskRunnerContext)
initialize(context) ==
    /\ Len(calls) < MaxCalls
    /\ IF initializeThrows(isInitialized)
       THEN /\ calls' = Append(calls, Call("initialize", context, AlreadyInitialized, taskRunnerContext))
            /\ UNCHANGED <<isInitialized, taskRunnerContext>>
       ELSE /\ isInitialized' = TRUE
            /\ taskRunnerContext' = context
            /\ calls' = Append(calls, Call("initialize", context, "none", context))
    /\ UNCHANGED <<runners, adapterVars, fetchVars>>

\* factory.create(alertType, { taskInstance })
create(alertType, taskInstance) ==
    /\ Len(calls) < MaxCalls
    /\ IF createThrows(isInitialized)
       THEN /\ calls' = Append(calls, Call("create", alertType, NotInitialized, taskRunnerContext))
            /\ UNCHANGED runners
       ELSE /\ calls' = Append(calls, Call("create", alertType, "none", taskRunnerContext))
            /\ runners' = Append(runners, TaskRunner(alertType, taskInstance, taskRunnerContext))
    /\ UNCHANGED <<isInitialized, taskRunnerContext, adapterVars, fetchVars>>

NextFactory ==
    \/ \E context \in Contexts : initialize(context)
    \/ \E alertType \in AlertTypes, taskInstance \in TaskInstances : create(alertType, taskInstance)

SpecFactory == Init /\ [][NextFactory]_vars

\* an initialize call before call i returned normally
InitializedBefore(i) ==
    \E j \in 1..(i - 1) : calls[j].op = "initialize" /\ calls[j].threw = "none"

\* the context of the first initialize call among the first i calls
FirstContext(i) ==
    IF \E j \in 1..i : calls[j].op = "initialize"
    THEN calls[CHOOSE j \in 1..i : calls[j].op = "initialize" /\ \A k \in 1..(j - 1) : calls[k].op # "initialize"].arg
    ELSE "undefined"

\* C9: in every history of calls, create throws 'not initialized' exactly when no
\* initialize call returned before it; initialize returns normally exactly when
\* it is the first initialize call and otherwise throws 'already initialized';
\* after every call the stored context is the argument of the first initialize
\* call; and every TaskRunner was built with that context.
C9_FactoryInitializedOnce ==
    /\ \A i \in 1..Len(calls) :
           /\ calls[i].op = "create" =>
                  /\ calls[i].threw = NotInitialized <=> ~InitializedBefore(i)
                  /\ calls[i].threw = "none" <=> InitializedBefore(i)
           /\ calls[i].op = "initialize" =>
                  /\ calls[i].threw = "none" <=> ~InitializedBefore(i)
                  /\ calls[i].threw = AlreadyInitialized <=> InitializedBefore(i)
           /\ calls[i].ctxAfter = FirstContext(i)
    /\ taskRunnerContext = FirstContext(Len(calls))
    /\ \A k \in 1..Len(runners) : runners[k].context = FirstContext(Len(calls))
    /\ Len(runners) = Cardinality({i \in 1..Len(calls) : calls[i].op = "create" /\ calls[i].threw = "none"})

\* create threw, initialize(A) returned, initialize(B) threw, create built a runner with A
C9_Witness ==
    /\ Len(calls) = 4
    /\ calls[1].op = "create" /\ calls[1].threw = NotInitialized
    /\ calls[2].op = "initialize" /\ calls[2].arg = "contextA" /\ calls[2].threw = "none"
    /\ calls[3].op = "initialize" /\ calls[3].arg = "contextB" /\ calls[3].threw = AlreadyInitialized
    /\ calls[4].op = "create" /\ calls[4].threw = "none"
    /\ Len(runners) = 1 /\ runners[1].context = "contextA"

(***************************************************************************)
(* fetchFields                                                             *)
(***************************************************************************)
IndexPatterns == {"a", "b"}
FieldResponses == {"fields1", "fields2"}
ErrorNames == {"AbortError", "Error"}

\* arrays of at most MaxPatterns index patterns
RECURSIVE ArraysUpTo(_)
ArraysUpTo(n) ==
    IF n = 0 THEN {<<>>}
    ELSE ArraysUpTo(n - 1) \cup
         {Append(a, p) : a \in {b \in ArraysUpTo(n - 1) : Len(b) = n - 1}, p \in IndexPatterns}

InFlight == [state |-> "pending", response |-> "none", error |-> "none"]

\* the promise of Promise.all over the requests `rs`, before any of them settled
PromiseAll(rs) ==
    IF Len(rs) = 0 THEN [state |-> "fulfilled", reason |-> "none"]
    ELSE [state |-> "pending", reason |-> "none"]

\* patterns.map((pattern) => getCoreStart().http.get(...)); await Promise.all(...)
Issue(ps) ==
    /\ patterns' = ps
    /\ reqs' = [i \in 1..Len(ps) |-> InFlight]
    /\ allSettled' = PromiseAll([i \in 1..Len(ps) |-> InFlight])
    /\ fpc' = "awaiting"
    /\ UNCHANGED <<toasts, ret, adapterVars, factoryVars>>

\* fetchFields() : indexPatterns = []
fetchFieldsDefault == fpc = "idle" /\ Issue(<<>>)

\* fetchFields([...]) : Array.isArray(indexPatterns)
fetchFieldsArray(indexPatterns) == fpc = "idle" /\ Issue(indexPatterns)

\* fetchFields('a') : patterns = [indexPatterns]
fetchFieldsValue(indexPattern) == fpc = "idle" /\ Issue(<<indexPattern>>)

AllFulfilled(rs) == \A i \in 1..Len(rs) : rs[i].state = "fulfilled"

\* the http.get promise of patterns[i] fulfils with `response`
RequestSucceeds(i, response) ==
    /\ i \in 1..Len(reqs)
    /\ reqs[i].state = "pending"
    /\ reqs' = [reqs EXCEPT ![i] = [state |-> "fulfilled", response |-> response, error |-> "none"]]
    /\ allSettled' =
           IF allSettled.state = "pending" /\ AllFulfilled(reqs')
           THEN [state |-> "fulfilled", reason |-> "none"]
           ELSE allSettled
    /\ UNCHANGED <<fpc, patterns, toasts, ret, adapterVars, factoryVars>>

\* the http.get promise of patterns[i] rejects with an error named `name`
RequestFails(i, name) ==
    /\ i \in 1..Len(reqs)
    /\ reqs[i].state = "pending"
    /\ reqs' = [reqs EXCEPT ![i] = [state |-> "rejected", response |-> "none", error |-> name]]
    /\ allSettled' =
           IF allSettled.state = "pending"
           THEN [state |-> "rejected", reason |-> name]
           ELSE allSettled
    /\ UNCHANGED <<fpc, patterns, toasts, ret, adapterVars, factoryVars>>

\* { ...cumulatedFields, [currentPattern]: indexFields[index] }
Spread(cumulatedFields, currentPattern, value) ==
    {kv \in cumulatedFields : kv[1] # currentPattern} \cup {<<currentPattern, value>>}

\* patterns.reduce(..., {}) over the first n patterns
RECURSIVE Reduce(_, _, _)
Reduce(ps, indexFields, n) ==
    IF n = 0 THEN {}
    ELSE Spread(Reduce(ps, indexFields, n - 1), ps[n], indexFields[n])

ToastAlways(name) == TRUE
\* error.name !== 'AbortError'
ShouldToast(name) == name # "AbortError"

\* the continuation of fetchFields once Promise.all has settled
fetchFieldsResume ==
    /\ fpc = "awaiting"
    /\ allSettled.state # "pending"
    /\ IF allSettled.state = "fulfilled"
       THEN /\ ret' = [kind |-> "object",
                       fields |-> Reduce(patterns, [i \in 1..Len(reqs) |-> reqs[i].response], Len(patterns))]
            /\ UNCHANGED toasts
       ELSE /\ toasts' = IF ShouldToast(allSettled.reason) THEN toasts + 1 ELSE toasts
            /\ ret' = [kind |-> "array", fields |-> {}]
    /\ fpc' = "done"
    /\ UNCHANGED <<patterns, reqs, allSettled, adapterVars, factoryVars>>

NextFetch ==
    \/ fetchFieldsDefault
    \/ \E indexPatterns \in ArraysUpTo(MaxPatterns) : fetchFieldsArray(indexPatterns)
    \/ \E indexPattern \in IndexPatterns : fetchFieldsValue(indexPattern)
    \/ \E i \in 1..MaxPatterns, response \in FieldResponses : RequestSucceeds(i, response)
    \/ \E i \in 1..MaxPatterns, name \in ErrorNames : RequestFails(i, name)
    \/ fetchFieldsResume

SpecFetch == Init /\ [][NextFetch]_vars

\* the last request made for the pattern of request i
LastFor(i) == \A j \in (i + 1)..Len(patterns) : patterns[j] # patterns[i]

\* C10: when fetchFields has returned, then if every request succeeded it
\* returned an object with one key per requested pattern, each mapped to the
\* response of the (last) request made for that pattern, and showed no toast;
\* if a request failed it returned an empty array and showed one toast unless
\* the error caught is named 'AbortError', and none if it is; one of the two is
\* the case and the returned promise never rejects.
C10_FetchFieldsAllOrNothing ==
    fpc = "done" =>
        /\ ret.kind \in {"object", "array"}
        /\ AllFulfilled(reqs) \/ \E i \in 1..Len(reqs) : reqs[i].state = "rejected"
        /\ AllFulfilled(reqs) =>
               /\ ret.kind = "object"
               /\ ret.fields = {<<patterns[i], reqs[i].response>> : i \in {j \in 1..Len(patterns) : LastFor(j)}}
               /\ toasts = 0
        /\ (\E i \in 1..Len(reqs) : reqs[i].state = "rejected") =>
               /\ ret = [kind |-> "array", fields |-> {}]
               /\ \E i \in 1..Len(reqs) : reqs[i].error = allSettled.reason
               /\ toasts = IF allSettled.reason = "AbortError" THEN 0 ELSE 1

\* two patterns were requested; one request was aborted, the other had succeeded
C10_Witness ==
    /\ fpc = "done"
    /\ patterns = <<"a", "b">>
    /\ reqs[1].state = "fulfilled"
    /\ reqs[2].state = "rejected" /\ reqs[2].error = "AbortError"
    /\ ret = [kind |-> "array", fields |-> {}]
    /\ toasts = 0

====
